---- MODULE Spec2Model ----
(***************************************************************************)
(* Model of the OSC codec of src/src/lib.rs: the message decoder (parse,   *)
(* parse_osc), the message encoder (create_osc_message), the bundle        *)
(* encoder (create_osc_bundle) and the UDP receiver (start_socket, recv,   *)
(* stop_socket).                                                           *)
(*                                                                         *)
(* Conventions.  A byte is a number in 0..255.  A Rust slice &[u8] is a    *)
(* sequence of bytes; the Rust index i is the TLA+ index i+1.  A C string  *)
(* (a c_char pointer) is the sequence of its bytes before the terminator; a *)
(* pointer is <<>> when null and <<bytes>> otherwise.  A Rust panic (an    *)
(* index out of range, an unwrap of Err) is the outcome "panic".  An f32   *)
(* is its IEEE-754 fields [sign, exp, mant], an i32 is an integer, so that *)
(* to_be_bytes and from_be_bytes are real conversions.  In the state, a    *)
(* long byte string (a 4096-byte buffer, an address) is kept run-length    *)
(* encoded, <<byte, count>> per run; the operators work on plain bytes.    *)
(***************************************************************************)
EXTENDS Integers, Sequences, FiniteSets, TLC

VARIABLES
    \* message encoder followed by the decoder (tests::serialize_osc_message)
    osc_template,   \* the OscMessage handed to create_osc_message
    fill,           \* the byte the caller initialised the buffer with ([fill; 4096])
    buf,            \* the caller's 4096-byte output buffer
    enc,            \* what create_osc_message did: [st, ix]
    dec,            \* what parse(&buf) did afterwards: [st, err, msg]
    mpc,            \* "start" -> "encoded" -> "decoded"
    \* one-shot decode entry point parse_osc
    inbuf,          \* the byte span handed to parse_osc
    msg,            \* the caller's OscMessage (the &mut OscMessage argument)
    pres,           \* what parse did on inbuf: [st, err, msg]
    pret,           \* parse_osc's return: "none", "true", "false", "panic"
    \* bundle encoder
    messages,       \* the caller's array of OscMessage
    messages_index, \* the caller's usize behind the messages_index pointer
    bbuf,           \* the caller's 4096-byte bundle buffer
    calls,          \* the calls of create_osc_bundle made so far, in order:
                    \* [st, start, ret, written, oob]
    \* UDP receiver
    started,        \* start_socket's return code, "none" before the call
    arrived,        \* the datagrams that have reached the socket, in order
    sock,           \* the socket's queue: arrival numbers not yet read
    rpc,            \* receiver thread: "none", "recv_from", "callback",
                    \* "returned", "panicked"
    cur,            \* <<n, msg>>: the decoded message in the callback's hands
    delivered,      \* arrival numbers of the datagrams given to the callback
    stop            \* stop_socket: "no", "joining", "joined", "panic"

msgVars == <<osc_template, fill, buf, enc, dec, mpc>>
parseVars == <<inbuf, msg, pres, pret>>
bundleVars == <<messages, messages_index, bbuf, calls>>
sockVars == <<started, arrived, sock, rpc, cur, delivered, stop>>
vars == <<msgVars, parseVars, bundleVars, sockVars>>

----------------------------------------------------------------------------
(* Program constants *)

BufSize == 4096
Slash == 47
Comma == 44
TagInt == 105
TagFloat == 102
TagTrue == 84
TagFalse == 70
TagString == 115

(* Bounds of the model *)

MaxShortLen == 4    \* short sample addresses have 1..MaxShortLen bytes
MaxMsgs == 3        \* messages in a bundle caller's array
MaxCalls == 3       \* calls a chunking caller makes
MaxDatagrams == 3   \* datagrams that reach the socket

----------------------------------------------------------------------------
(* Bytes, integers and floats *)

Byte == 0..255

Min(S) == CHOOSE x \in S : \A y \in S : x <= y
Max(S) == CHOOSE x \in S : \A y \in S : x >= y

\* u32::to_be_bytes for 0 <= u < 2^31
U32ToBe(u) == << u \div 16777216, (u \div 65536) % 256, (u \div 256) % 256, u % 256 >>

BeToU31(b) == ((b[1] * 256 + b[2]) * 256 + b[3]) * 256 + b[4]

\* i32::to_be_bytes: two's complement; for v < 0 the bytes of v are the
\* complements of the bytes of -(v+1)
I32ToBe(v) ==
    IF v >= 0 THEN U32ToBe(v)
    ELSE LET c == U32ToBe(-(v + 1))
         IN <<255 - c[1], 255 - c[2], 255 - c[3], 255 - c[4]>>

I32FromBeSwapped(b) ==
    IF b[4] < 128 THEN BeToU31(<<b[4], b[3], b[2], b[1]>>)
    ELSE -BeToU31(<<255 - b[4], 255 - b[3], 255 - b[2], 255 - b[1]>>) - 1

\* i32::from_be_bytes
I32FromBe(b) ==
    IF b[1] < 128 THEN BeToU31(b)
    ELSE -BeToU31(<<255 - b[1], 255 - b[2], 255 - b[3], 255 - b[4]>>) - 1

\* f32::to_be_bytes: sign(1) exp(8) mant(23)
F32ToBe(f) ==
    << f.sign * 128 + (f.exp \div 2),
       (f.exp % 2) * 128 + (f.mant \div 65536),
       (f.mant \div 256) % 256,
       f.mant % 256 >>

\* f32::from_be_bytes
F32FromBe(b) ==
    [ sign |-> b[1] \div 128,
      exp  |-> (b[1] % 128) * 2 + (b[2] \div 128),
      mant |-> ((b[2] % 128) * 256 + b[3]) * 256 + b[4] ]

F32Zero == [sign |-> 0, exp |-> 0, mant |-> 0]

\* "buf[ix] as char" pushed onto a String and turned into a CString: the byte
\* becomes the code point of the same number, stored as UTF-8
Utf8OfByte(b) == IF b < 128 THEN <<b>> ELSE <<192 + (b \div 64), 128 + (b % 64)>>

\* the C string of the chars buf[lo..hi) (Rust indices), by halves
RECURSIVE CharsToCString(_, _, _)
CharsToCString(b, lo, hi) ==
    IF lo >= hi THEN <<>>
    ELSE IF hi = lo + 1 THEN Utf8OfByte(b[lo + 1])
    ELSE LET mid == (lo + hi) \div 2
         IN CharsToCString(b, lo, mid) \o CharsToCString(b, mid, hi)

IsCont(x) == x >= 128 /\ x <= 191

\* number of bytes of the UTF-8 scalar that starts with lead byte x (0: none)
Utf8Width(x) ==
    IF x < 128 THEN 1
    ELSE IF x >= 194 /\ x <= 223 THEN 2
    ELSE IF x >= 224 /\ x <= 239 THEN 3
    ELSE IF x >= 240 /\ x <= 244 THEN 4
    ELSE 0

\* the range of the second byte after lead byte x
Utf8Second(x, y) ==
    CASE x = 224 -> y >= 160 /\ y <= 191
      [] x = 237 -> y >= 128 /\ y <= 159
      [] x = 240 -> y >= 144 /\ y <= 191
      [] x = 244 -> y >= 128 /\ y <= 143
      [] OTHER   -> IsCont(y)

\* CStr::to_str succeeds: the bytes are well-formed UTF-8.  Every byte is
\* ASCII, or starts a scalar of the right width, or is a continuation byte
\* lying inside one.
IsUtf8(s) ==
    \A i \in 1..Len(s) :
        \/ s[i] < 128
        \/ /\ ~IsCont(s[i])
           /\ LET w == Utf8Width(s[i]) IN
              /\ w > 0
              /\ i + w - 1 <= Len(s)
              /\ \A j \in (i + 1)..(i + w - 1) : IsCont(s[j])
              /\ Utf8Second(s[i], s[i + 1])
        \/ /\ IsCont(s[i])
           /\ \E j \in (IF i > 3 THEN i - 3 ELSE 1)..(i - 1) :
                /\ ~IsCont(s[j])
                /\ j + Utf8Width(s[j]) - 1 >= i
                /\ \A k \in (j + 1)..i : IsCont(s[k])

----------------------------------------------------------------------------
(* OscMessage, OscValue, ParserError *)

Null == <<>>
Ptr(s) == <<s>>

OscValue(i, f, b, s) == [int |-> i, float |-> f, bool |-> b, string |-> s]

ZeroValue == OscValue(0, F32Zero, FALSE, Null)

OscMessage(a, t, v) == [address |-> a, osc_type |-> t, value |-> v]

NoMsg == OscMessage(Null, "Int", ZeroValue)

Ok(m) == [st |-> "ok", err |-> "", msg |-> m]
Err(e) == [st |-> "err", err |-> e, msg |-> NoMsg]
Panic == [st |-> "panic", err |-> "", msg |-> NoMsg]
NoResult == [st |-> "none", err |-> "", msg |-> NoMsg]

----------------------------------------------------------------------------
(* Decoder *)

Pad4(n) == IF n % 4 # 0 THEN n + (4 - (n % 4)) ELSE n

\* the Rust index of the first zero byte at or after ix, or -1 when the scan
\* "while buf[*ix] != 0" runs off the end of the slice
ScanZero(b, ix) ==
    IF \E j \in ix..(Len(b) - 1) : b[j + 1] = 0
    THEN CHOOSE j \in ix..(Len(b) - 1) :
            b[j + 1] = 0 /\ \A k \in ix..(j - 1) : b[k + 1] # 0
    ELSE -1

\* [st, err, val, ix]
extract_osc_address(b, ix) ==
    IF Len(b) = 0 THEN [st |-> "panic", err |-> "", val |-> <<>>, ix |-> ix]
    ELSE IF b[1] # Slash
        THEN [st |-> "err", err |-> "InvalidAddress", val |-> <<>>, ix |-> ix]
    ELSE LET z == ScanZero(b, ix) IN
        IF z < 0 THEN [st |-> "panic", err |-> "", val |-> <<>>, ix |-> ix]
        ELSE [st |-> "ok", err |-> "",
              val |-> CharsToCString(b, ix, z),
              ix |-> Pad4(z + 1)]

ValOk(t, v, ix) == [st |-> "ok", err |-> "", type |-> t, val |-> v, ix |-> ix]
ValErr(e, ix) == [st |-> "err", err |-> e, type |-> "Int", val |-> ZeroValue, ix |-> ix]
ValPanic(ix) == [st |-> "panic", err |-> "", type |-> "Int", val |-> ZeroValue, ix |-> ix]

\* [st, err, type, val, ix]
extract_osc_value(b, ix) ==
    IF ix >= Len(b) THEN ValPanic(ix)
    ELSE IF b[ix + 1] # Comma THEN ValErr("InvalidType", ix)
    ELSE IF ix + 1 >= Len(b) THEN ValPanic(ix + 1)
    ELSE
        LET type_char == b[ix + 2]
            jx == ix + 4
        IN
        CASE type_char = TagInt ->
                IF jx + 4 > Len(b) THEN ValPanic(jx)
                ELSE ValOk("Int",
                           [ZeroValue EXCEPT !.int = I32FromBe(SubSeq(b, jx + 1, jx + 4))],
                           jx)
          [] type_char = TagFloat ->
                IF jx + 4 > Len(b) THEN ValPanic(jx)
                ELSE ValOk("Float",
                           [ZeroValue EXCEPT !.float = F32FromBe(SubSeq(b, jx + 1, jx + 4))],
                           jx)
          [] type_char = TagTrue ->
                ValOk("Bool", [ZeroValue EXCEPT !.bool = TRUE], jx)
          [] type_char = TagFalse ->
                ValOk("Bool", [ZeroValue EXCEPT !.bool = FALSE], jx)
          [] type_char = TagString ->
                LET z == ScanZero(b, jx) IN
                IF z < 0 THEN ValPanic(jx)
                ELSE ValOk("String",
                           [ZeroValue EXCEPT !.string = Ptr(CharsToCString(b, jx, z))],
                           z + 1)
          [] OTHER -> ValErr("InvalidType", jx)

\* [st, err, msg]
parse(b) ==
    LET address == extract_osc_address(b, 0) IN
    IF address.st = "panic" THEN Panic
    ELSE LET value == extract_osc_value(b, address.ix) IN
        IF value.st = "panic" THEN Panic
        ELSE IF address.st = "ok" /\ value.st = "ok"
            THEN Ok(OscMessage(Ptr(address.val), value.type, value.val))
        ELSE IF address.st = "err" THEN Err(address.err)
        ELSE Err(value.err)

----------------------------------------------------------------------------
(* Encoder *)

\* Memory seen from a caller's buffer: bytes is the buffer itself, oob the
\* offsets past its end that have been written (memory the buffer does not own).
Mem(bytes) == [bytes |-> bytes, oob |-> {}]

\* store src at buffer offsets off .. off+Len(src)-1; the part of src that
\* falls past the end of the buffer lands in memory the buffer does not own
WriteBytes(M, off, src) ==
    LET n == Len(M.bytes)
        k == Len(src)
    IN [ bytes |-> IF off >= n THEN M.bytes
                   ELSE IF off + k <= n
                   THEN SubSeq(M.bytes, 1, off) \o src \o SubSeq(M.bytes, off + k + 1, n)
                   ELSE SubSeq(M.bytes, 1, off) \o SubSeq(src, 1, n - off),
         oob |-> IF off + k <= n THEN M.oob
                 ELSE M.oob \cup ((IF off >= n THEN off ELSE n)..(off + k - 1)) ]

\* An encoder in progress: [st, mem, ix].  The encoder writes through the slice
\* slice::from_raw_parts_mut(ptr, 4096), whose element 0 is the buffer offset base.
Enc(M, ix) == [st |-> "ok", mem |-> M, ix |-> ix]

\* buf[ix .. ix+Len(src)] = src through the slice: an index at or past the
\* slice's length panics
Put(s, base, at, src) ==
    IF s.st # "ok" THEN s
    ELSE IF at + Len(src) > BufSize THEN [s EXCEPT !.st = "panic"]
    ELSE [s EXCEPT !.mem = WriteBytes(s.mem, base + at, src)]

Adv(s, n) == IF s.st # "ok" THEN s ELSE [s EXCEPT !.ix = s.ix + n]

write_address(s, base, address) ==
    LET s1 == Adv(Put(s, base, s.ix, address), Len(address))
        s2 == Adv(Put(s1, base, s1.ix, <<0>>), 1)
    IN IF s2.st # "ok" THEN s2 ELSE [s2 EXCEPT !.ix = Pad4(s2.ix)]

\* [st, mem, ix]: ix is the returned byte count
create_osc_message(M, base, t) ==
    IF ~IsUtf8(t.address[1]) THEN [st |-> "panic", mem |-> M, ix |-> 0]
    ELSE
    LET s0 == write_address(Enc(M, 0), base, t.address[1])
        s1 == Adv(Put(s0, base, s0.ix, <<Comma>>), 1)
    IN CASE t.osc_type = "Int" ->
              LET a == Adv(Put(s1, base, s1.ix, <<TagInt>>), 3)
              IN Adv(Put(a, base, a.ix, I32ToBe(t.value.int)), 4)
         [] t.osc_type = "Float" ->
              LET a == Adv(Put(s1, base, s1.ix, <<TagFloat>>), 3)
              IN Adv(Put(a, base, a.ix, F32ToBe(t.value.float)), 4)
         [] t.osc_type = "Bool" ->
              Adv(Put(s1, base, s1.ix,
                      <<IF t.value.bool THEN TagTrue ELSE TagFalse>>), 3)
         [] t.osc_type = "String" -> s1

----------------------------------------------------------------------------
(* Bundle encoder *)

\* The timetag: (secs << 32) | (subsec_nanos << 32 >> 32) as 8 big-endian
\* bytes.  The high half is secs (below 2^31 in the sample clock readings), the
\* low half is subsec_nanos, which is below 10^9.
TimetagBytes(t) == U32ToBe(t.secs) \o U32ToBe(t.nanos)

BundleHeader == <<35, 98, 117, 110, 100, 108, 101, 0>>   \* "#bundle\0"

BundleDone(st, M, ix, start, i, index) ==
    [st |-> st, mem |-> M, ix |-> ix, start |-> start, written |-> i - start,
     index |-> index]

\* the loop "for msg in messages.iter().skip(message_ix)", with message_ix = i
\* and the caller's *messages_index = start on entry
RECURSIVE BundleLoop(_, _, _, _, _)
BundleLoop(M, ix, msgs, start, i) ==
    IF i >= Len(msgs)
    THEN BundleDone("ok", M, ix, start, i, i)          \* *messages_index = message_ix
    ELSE
    LET m == msgs[i + 1] IN
    IF ~IsUtf8(m.address[1]) THEN BundleDone("panic", M, ix, start, i, start)
    ELSE
    LET length == Len(m.address[1]) + 1
        padded_length == IF length % 4 = 0 THEN length ELSE length + 4 - (length % 4)
    IN
    IF ix + padded_length + 4 > BufSize
    THEN BundleDone("ok", M, ix, start, i, start)      \* return ix;
    ELSE
    LET r == create_osc_message(M, ix + 4, m) IN
    IF r.st # "ok" \/ ix + 4 > BufSize THEN BundleDone("panic", r.mem, ix, start, i, start)
    ELSE BundleLoop(WriteBytes(r.mem, ix, U32ToBe(r.ix)), ix + r.ix + 4,
                    msgs, start, i + 1)

\* as create_osc_bundle, but iterating from the first message whatever
\* *messages_index holds (messages.iter() without the skip)
create_osc_bundle_noskip(bytes, msgs, index, t) ==
    LET M0 == WriteBytes(Mem(bytes), 0, BundleHeader)
        M1 == WriteBytes(M0, 8, TimetagBytes(t))
        r == BundleLoop(M1, 16, msgs, 0, 0)
    IN [r EXCEPT !.start = index]

\* [st, mem, ix, start, written, index]: ix is the returned byte count, index
\* the value left in *messages_index, written the number of messages encoded
create_osc_bundle(bytes, msgs, index, t) ==
    LET M0 == WriteBytes(Mem(bytes), 0, BundleHeader)
        M1 == WriteBytes(M0, 8, TimetagBytes(t))
    IN BundleLoop(M1, 16, msgs, index, index)

----------------------------------------------------------------------------
(* One-shot decode entry point *)

\* as parse_osc, but storing into *msg before looking at the outcome
parse_osc_store_first(b, m) ==
    LET r == parse(b) IN
    CASE r.st = "ok" -> [ret |-> "true", msg |-> r.msg, res |-> r]
      [] r.st = "err" -> [ret |-> "false", msg |-> r.msg, res |-> r]
      [] r.st = "panic" -> [ret |-> "panic", msg |-> m, res |-> r]

\* [ret, msg, res]: the return value, the caller's message afterwards, and
\* what parse did
parse_osc(b, m) ==
    LET r == parse(b) IN
    CASE r.st = "ok" -> [ret |-> "true", msg |-> r.msg, res |-> r]
      [] r.st = "err" -> [ret |-> "false", msg |-> m, res |-> r]
      [] r.st = "panic" -> [ret |-> "panic", msg |-> m, res |-> r]

----------------------------------------------------------------------------
(* Run-length form of long byte strings kept in the state *)

\* the last index of the run that starts at i
RunEnd(b, i) ==
    IF \A j \in (i + 1)..Len(b) : b[j] = b[i] THEN Len(b)
    ELSE (CHOOSE j \in (i + 1)..Len(b) :
             b[j] # b[i] /\ \A k \in (i + 1)..(j - 1) : b[k] = b[i]) - 1

RECURSIVE RleFrom(_, _)
RleFrom(b, i) ==
    IF i > Len(b) THEN <<>>
    ELSE LET e == RunEnd(b, i) IN <<<<b[i], e - i + 1>>>> \o RleFrom(b, e + 1)

\* (the singleton binds the bytes once, whatever expression b is)
Rle(b) == CHOOSE r \in {RleFrom(v, 1) : v \in {b}} : TRUE

Run(x, n) == IF n = 1 THEN <<x>> ELSE SubSeq([i \in 1..n |-> x], 1, n)

RECURSIVE UnrleFrom(_, _)
UnrleFrom(r, k) ==
    IF k > Len(r) THEN <<>> ELSE Run(r[k][1], r[k][2]) \o UnrleFrom(r, k + 1)

Unrle(r) == UnrleFrom(r, 1)

PackMsg(m) == [m EXCEPT !.address = Ptr(Rle(m.address[1]))]
UnpackMsg(m) == [m EXCEPT !.address = Ptr(Unrle(m.address[1]))]

PackResult(r) == IF r.st = "ok" THEN [r EXCEPT !.msg = PackMsg(r.msg)] ELSE r

----------------------------------------------------------------------------
(* Sample inputs *)

\* "/" followed by n-1 letters 'a'
SlashA(n) == <<Slash>> \o SubSeq([i \in 1..n |-> 97], 1, n - 1)

TestAddress ==   \* "/test_message/meme"
    <<47, 116, 101, 115, 116, 95, 109, 101, 115, 115, 97, 103, 101, 47, 109, 101, 109, 101>>

ShortAddresses == {SlashA(n) : n \in 1..MaxShortLen}

\* addresses around the longest ones the 4096-byte buffer can hold
LongAddresses == {SlashA(n) : n \in {BufSize - 9, BufSize - 8, BufSize - 5,
                                      BufSize - 4, BufSize - 1, BufSize}}

OddAddresses ==
    { <<47, 195, 169>>,     \* "/e" with an acute accent: UTF-8, not ASCII
      <<47, 255>>,          \* not UTF-8
      <<97, 47>> }          \* no leading '/'

Addresses == ShortAddresses \cup {TestAddress} \cup LongAddresses \cup OddAddresses

MinI32 == -2147483647 - 1

SampleInts == {0, 42, -1, 16909060, MinI32}

Pi == [sign |-> 0, exp |-> 128, mant |-> 4781507]    \* 3.14

SampleFloats ==
    { F32Zero, Pi,
      [sign |-> 1, exp |-> 133, mant |-> 710410],    \* -69.42
      [sign |-> 0, exp |-> 255, mant |-> 4194304] }  \* NaN

Hello == <<104, 101, 108, 108, 111>>

SampleValues ==
    {<<"Int", OscValue(i, F32Zero, FALSE, Null)>> : i \in SampleInts}
    \cup {<<"Float", OscValue(0, f, FALSE, Null)>> : f \in SampleFloats}
    \cup {<<"Bool", OscValue(0, F32Zero, b, Null)>> : b \in BOOLEAN}
    \cup {<<"String", OscValue(0, F32Zero, FALSE, Ptr(Hello))>>,
          <<"Int", OscValue(9, Pi, TRUE, Null)>>}

Templates == {OscMessage(Ptr(a), tv[1], tv[2]) : a \in Addresses, tv \in SampleValues}

Filled(x) == SubSeq([i \in 1..BufSize |-> x], 1, BufSize)

\* what the caller's buffer may hold before the call: [0; 4096] or [255; 4096]
Fills == {0, 255}

Idle == <<>>
MsgIdle == osc_template = Idle /\ fill = Idle /\ buf = Idle /\ enc = Idle /\ dec = Idle /\ mpc = Idle
ParseIdle == inbuf = Idle /\ msg = Idle /\ pres = Idle /\ pret = Idle
BundleIdle == messages = Idle /\ messages_index = Idle /\ bbuf = Idle /\ calls = Idle
SockIdle ==
    /\ started = Idle /\ arrived = Idle /\ sock = Idle /\ rpc = Idle /\ cur = Idle
    /\ delivered = Idle /\ stop = Idle

----------------------------------------------------------------------------
(* Encode, then decode the whole buffer (tests::serialize_osc_message) *)

MsgInit ==
    /\ osc_template \in {PackMsg(t) : t \in Templates}
    /\ fill \in Fills
    /\ buf = Rle(Filled(fill))
    /\ enc = [st |-> "none", ix |-> 0]
    /\ dec = NoResult
    /\ mpc = "start"
    /\ ParseIdle /\ BundleIdle /\ SockIdle

Encode ==
    /\ mpc = "start"
    /\ \E b \in {Unrle(buf)}, t \in {UnpackMsg(osc_template)} :
       \E r \in {create_osc_message(Mem(b), 0, t)} :
          /\ buf' = Rle(r.mem.bytes)
          /\ enc' = [st |-> r.st, ix |-> r.ix]
    /\ mpc' = "encoded"
    /\ UNCHANGED <<osc_template, fill, dec, parseVars, bundleVars, sockVars>>

Decode ==
    /\ mpc = "encoded"
    /\ enc.st = "ok"
    /\ \E b \in {Unrle(buf)} : dec' = PackResult(parse(b))
    /\ mpc' = "decoded"
    /\ UNCHANGED <<osc_template, fill, buf, enc, parseVars, bundleVars, sockVars>>

MsgNext == Encode \/ Decode

SpecMessage == MsgInit /\ [][MsgNext]_vars

IsAscii(s) == \A i \in 1..Len(s) : s[i] >= 1 /\ s[i] <= 127

NoZero(s) == \A i \in 1..Len(s) : s[i] # 0

\* the field of the value that the type selects
Selected(m) ==
    CASE m.osc_type = "Int" -> <<"Int", m.value.int>>
      [] m.osc_type = "Float" -> <<"Float", m.value.float>>
      [] m.osc_type = "Bool" -> <<"Bool", m.value.bool>>
      [] m.osc_type = "String" -> <<"String", m.value.string>>

SameMessage(a, b) ==
    /\ a.address = b.address
    /\ a.osc_type = b.osc_type
    /\ Selected(a) = Selected(b)

\* bytes the encoded message takes: address block, type-tag block, payload
EncodedSize(m) ==
    Pad4(Len(m.address[1]) + 1) + 4 + (IF m.osc_type \in {"Int", "Float"} THEN 4 ELSE 0)

RoundTripped ==
    /\ mpc # "start" => enc.st = "ok"
    /\ mpc = "decoded" => dec.st = "ok" /\ SameMessage(dec.msg, osc_template)

\* C1 as stated: every Int, Float or Bool message whose address starts with '/'
\* and holds no zero byte survives create_osc_message into a zeroed buffer
\* followed by parse: the decoded address, type and selected value are the
\* template's
C1_RoundTripAnyAddress ==
    \A a \in {Unrle(osc_template.address[1])} :
        ( /\ fill = 0
          /\ osc_template.osc_type \in {"Int", "Float", "Bool"}
          /\ a # <<>>
          /\ a[1] = Slash
          /\ NoZero(a) )
        => RoundTripped

\* C1 amended: the same, for an ASCII address short enough for the encoded
\* message to fit in the 4096-byte buffer
C1_RoundTrip ==
    \A a \in {Unrle(osc_template.address[1])} :
        ( /\ fill = 0
          /\ osc_template.osc_type \in {"Int", "Float", "Bool"}
          /\ a # <<>>
          /\ a[1] = Slash
          /\ IsAscii(a)
          /\ EncodedSize([osc_template EXCEPT !.address = Ptr(a)]) <= BufSize )
        => RoundTripped

\* a negative Int under the longest address that fits has been encoded and decoded
C1_Witness ==
    /\ mpc = "decoded"
    /\ fill = 0
    /\ osc_template.osc_type = "Int"
    /\ osc_template.value.int < -1
    /\ \E a \in {Unrle(osc_template.address[1])} :
          /\ a[1] = Slash
          /\ IsAscii(a)
          /\ EncodedSize([osc_template EXCEPT !.address = Ptr(a)]) = BufSize
    /\ dec.st = "ok"
    /\ SameMessage(dec.msg, osc_template)

TagOf(m) ==
    CASE m.osc_type = "Int" -> TagInt
      [] m.osc_type = "Float" -> TagFloat
      [] m.osc_type = "Bool" -> (IF m.value.bool THEN TagTrue ELSE TagFalse)
      [] m.osc_type = "String" -> TagString

\* C8: whatever the type and the prior content of the buffer, the four bytes
\* after the padded address block are ',' tag 0 0 and the returned count
\* includes them
C8_TypeTagBlock ==
    (mpc \in {"encoded", "decoded"} /\ enc.st = "ok") =>
        \A b \in {Unrle(buf)}, a \in {Unrle(osc_template.address[1])} :
            LET p == Pad4(Len(a) + 1) IN
            /\ enc.ix >= p + 4
            /\ SubSeq(b, p + 1, p + 4) = <<Comma, TagOf(osc_template), 0, 0>>

----------------------------------------------------------------------------
(* The one-shot decoder on arbitrary byte spans *)

Heads ==
    { <<47, 116, 101, 115, 116, 0, 0, 0>>,      \* "/test" 0 0 0
      <<47, 97, 98, 0>>,                        \* "/ab" 0
      <<116, 101, 115, 116, 0, 0, 0, 0>>,       \* "test" 0 0 0 0: no leading '/'
      <<>> }                                    \* the span starts at the type tag

Tails ==
    { <<44, 105, 0, 0, 0, 0, 0, 9>>,                        \* ,i 9
      <<44, 102, 0, 0, 66, 138, 215, 10>>,                  \* ,f 69.42
      <<44, 84, 0, 0>>,                                     \* ,T
      <<44, 70, 0, 0>>,                                     \* ,F
      <<44, 115, 0, 0, 104, 101, 108, 108, 111, 0, 0, 0>>,  \* ,s "hello" 0 0 0
      <<44, 115, 0, 0, 104, 101, 108, 108, 111>>,           \* ,s "hello", no terminator
      <<44, 120, 0, 0>>,                                    \* ,x: no such tag
      <<120, 105, 0, 0>> }                                  \* no comma

\* every non-empty span that is a head and a tail cut short somewhere
SampleSpans ==
    UNION { {SubSeq(h \o t, 1, n) : n \in 1..Len(h \o t)} : h \in Heads, t \in Tails }

ParseInit ==
    /\ inbuf = <<>>
    /\ msg = NoMsg
    /\ pres = NoResult
    /\ pret = "none"
    /\ MsgIdle /\ BundleIdle /\ SockIdle

\* a call of parse_osc(buf, len, &mut msg); a panic ends the process
ParseOsc ==
    /\ pret # "panic"
    /\ \E b \in SampleSpans :
        LET r == parse_osc(b, msg) IN
        /\ inbuf' = b
        /\ msg' = r.msg
        /\ pres' = r.res
        /\ pret' = r.ret
    /\ UNCHANGED <<msgVars, bundleVars, sockVars>>

ParseNext == ParseOsc

SpecParse == ParseInit /\ [][ParseNext]_vars

\* C6: a non-empty span whose first byte is not '/' makes parse return
\* Err(InvalidAddress), whatever follows
C6_InvalidAddress ==
    (pret # "none" /\ inbuf # <<>> /\ inbuf[1] # Slash) =>
        (pres.st = "err" /\ pres.err = "InvalidAddress")

\* C7: on every non-empty span parse returns a message or a ParserError; it
\* never indexes at or past the end of the span (which would panic)
C7_TruncatedIsError ==
    (pret # "none" /\ inbuf # <<>>) => pres.st \in {"ok", "err"}

----------------------------------------------------------------------------
(* Bundle encoder: one call, then a second call one index further on        *)
(* (tests::serialize_osc_bundle)                                            *)

BundleMessages ==
    { OscMessage(Ptr(SlashA(1)), "Bool", OscValue(0, F32Zero, TRUE, Null)),
      OscMessage(Ptr(SlashA(2027)), "Int", OscValue(42, F32Zero, FALSE, Null)),
      OscMessage(Ptr(SlashA(4075)), "Float", OscValue(0, Pi, FALSE, Null)),
      OscMessage(Ptr(SlashA(4)), "String", OscValue(0, F32Zero, FALSE, Ptr(Hello))) }

\* sequences of 1..n bundle messages, in the state's run-length form
RECURSIVE MessageArrays(_)
MessageArrays(n) ==
    IF n = 0 THEN {<<>>}
    ELSE LET S == MessageArrays(n - 1)
         IN S \cup {Append(a, PackMsg(m)) : a \in {x \in S : Len(x) = n - 1},
                                             m \in BundleMessages}

\* SystemTime::now(): seconds and nanoseconds since the epoch
SampleTimes == {[secs |-> 0, nanos |-> 0], [secs |-> 1700000000, nanos |-> 999999999]}

UnpackAll(ms) == [i \in 1..Len(ms) |-> UnpackMsg(ms[i])]

\* what a call leaves in the caller's hands
CallRecord(r, st) ==
    [st |-> st, start |-> r.start, ret |-> r.ix, written |-> r.written,
     index |-> r.index, oob |-> r.mem.oob]

\* A call of create_osc_bundle(bbuf, messages, len, &mut messages_index) with
\* *messages_index = index, on a buffer holding bytes.  A store past the end of
\* the buffer is undefined behaviour: the call may return as if nothing had
\* happened or the process may crash.
CallBundle(bytes, index) ==
    \E t \in SampleTimes, ms \in {UnpackAll(messages)} :
    \E r \in {create_osc_bundle(bytes, ms, index, t)} :
    \E st \in (IF r.st = "ok" /\ r.mem.oob # {} THEN {"ok", "crash"} ELSE {r.st}) :
        /\ bbuf' = Rle(r.mem.bytes)
        /\ messages_index' = r.index
        /\ calls' = Append(calls, CallRecord(r, st))

BundleInit ==
    /\ messages \in (MessageArrays(MaxMsgs) \ {<<>>})
    /\ messages_index \in 0..Len(messages)
    /\ bbuf = Rle(Filled(0))
    /\ calls = <<>>
    /\ MsgIdle /\ ParseIdle /\ SockIdle

\* let len1 = create_osc_bundle(buf, messages, len, &mut index)
Bundle ==
    /\ calls = <<>>
    /\ \E b \in {Unrle(bbuf)} : CallBundle(b, messages_index)
    /\ UNCHANGED <<messages, msgVars, parseVars, sockVars>>

\* index = k + 1; let len2 = create_osc_bundle(buf, messages, len, &mut index)
BundleAgain ==
    /\ Len(calls) = 1
    /\ calls[1].st = "ok"
    /\ calls[1].start + 1 <= Len(messages)
    /\ \E b \in {Unrle(bbuf)} : CallBundle(b, calls[1].start + 1)
    /\ UNCHANGED <<messages, msgVars, parseVars, sockVars>>

BundleNext == Bundle \/ BundleAgain

SpecBundle == BundleInit /\ [][BundleNext]_vars

\* C2: no call stores a byte at or past offset 4096 of the buffer, and the
\* returned byte count is at most 4096
C2_NoOverflow ==
    \A i \in 1..Len(calls) :
        /\ calls[i].oob = {}
        /\ calls[i].st = "ok" => calls[i].ret <= BufSize

\* C3: after a call started at index k, *messages_index is k plus the number
\* of messages the call encoded, whether it stopped early or consumed them all
C3_ResumeIndex ==
    \A i \in 1..Len(calls) :
        calls[i].st = "ok" => calls[i].index = calls[i].start + calls[i].written

\* the call encoded every message from its start index on, inside the buffer
AllFit(c) ==
    /\ c.st = "ok"
    /\ c.start + c.written = Len(messages)
    /\ c.oob = {}
    /\ c.ret <= BufSize

\* C5 as stated: the call started at k+1 never returns more bytes than the
\* call started at k, and strictly fewer when everything from k on fits
C5_MonotonicResume ==
    (Len(calls) = 2 /\ calls[2].start = calls[1].start + 1 /\ calls[2].st = "ok") =>
        /\ calls[2].ret <= calls[1].ret
        /\ AllFit(calls[1]) => calls[2].ret < calls[1].ret

\* C5 amended: when everything from k on fits, the call started at k+1
\* returns strictly fewer bytes than the call started at k
C5_ShorterWhenAllFit ==
    (Len(calls) = 2 /\ calls[2].start = calls[1].start + 1 /\ AllFit(calls[1])) =>
        (calls[2].st = "ok" /\ calls[2].ret < calls[1].ret)

\* three messages fitted from index 0 and the call from index 1 came out shorter
C5_Witness ==
    /\ Len(calls) = 2
    /\ Len(messages) = 3
    /\ calls[1].start = 0
    /\ AllFit(calls[1])
    /\ calls[2].start = 1
    /\ calls[2].written = 2
    /\ calls[2].ret < calls[1].ret

----------------------------------------------------------------------------
(* Bundle encoder driven by a chunking caller: call, send the buffer, call  *)
(* again from the reported index with a fresh buffer, until the index       *)
(* reaches the number of messages                                           *)

ChunkInit ==
    /\ messages \in (MessageArrays(MaxMsgs) \ {<<>>})
    /\ messages_index = 0
    /\ bbuf = Rle(Filled(0))
    /\ calls = <<>>
    /\ MsgIdle /\ ParseIdle /\ SockIdle

Chunk ==
    /\ messages_index < Len(messages)
    /\ Len(calls) < MaxCalls
    /\ calls # <<>> => calls[Len(calls)].st = "ok"
    /\ \E b \in {Filled(0)} : CallBundle(b, messages_index)
    /\ UNCHANGED <<messages, msgVars, parseVars, sockVars>>

ChunkNext == Chunk

SpecChunk == ChunkInit /\ [][ChunkNext]_vars

\* C4: over the calls of a chunking caller every message is encoded once, in
\* order (each call takes up where the messages encoded so far end), and a call
\* that returns has moved the reported index forward
C4_ChunkedProgress ==
    \A i \in 1..Len(calls) :
        /\ calls[i].start = (IF i = 1 THEN 0 ELSE calls[i - 1].start + calls[i - 1].written)
        /\ calls[i].st = "ok" => calls[i].index > calls[i].start

----------------------------------------------------------------------------
(* UDP receiver: start_socket, the receiver thread running recv, stop_socket *)

SampleDatagrams ==
    { <<47, 116, 101, 115, 116, 0, 0, 0, 44, 84, 0, 0>>,               \* /test ,T
      <<47, 116, 101, 115, 116, 0, 0, 0, 44, 105, 0, 0, 0, 0, 0, 9>>,  \* /test ,i 9
      <<120, 0, 0, 0>>,                 \* no leading '/': Err(InvalidAddress)
      <<47>> }                          \* "/" alone: the address scan panics

SampleIps ==
    { <<49, 50, 55, 46, 48, 46, 48, 46, 49>>,   \* "127.0.0.1"
      <<255>> }                                 \* not UTF-8

\* recv_from(&mut buf) on a 4096-byte buffer keeps the first amt bytes
Received(d) == SubSeq(d, 1, IF Len(d) < BufSize THEN Len(d) ELSE BufSize)

SockInit ==
    /\ started = "none"
    /\ arrived = <<>>
    /\ sock = <<>>
    /\ rpc = "none"
    /\ cur = <<>>
    /\ delivered = <<>>
    /\ stop = "no"
    /\ MsgIdle /\ ParseIdle /\ BundleIdle

\* -1: the ip is not UTF-8; -2: bind failed; 0: bound, receiver thread spawned
start_socket ==
    /\ started = "none"
    /\ \E ip \in SampleIps, bound \in BOOLEAN :
        /\ started' = (IF ~IsUtf8(ip) THEN "-1" ELSE IF ~bound THEN "-2" ELSE "0")
        /\ rpc' = (IF IsUtf8(ip) /\ bound THEN "recv_from" ELSE rpc)
    /\ UNCHANGED <<arrived, sock, cur, delivered, stop, msgVars, parseVars, bundleVars>>

\* a datagram reaches the socket, which the receiver thread owns until recv returns
Arrive ==
    /\ rpc \in {"recv_from", "callback"}
    /\ Len(arrived) < MaxDatagrams
    /\ \E d \in SampleDatagrams :
        /\ arrived' = Append(arrived, d)
        /\ sock' = Append(sock, Len(arrived) + 1)
    /\ UNCHANGED <<started, rpc, cur, delivered, stop, msgVars, parseVars, bundleVars>>

\* recv: source.recv_from(&mut buf) returns, then parse(&buf[..amt]).  On Err
\* the error is printed and recv returns: the thread ends and drops the socket.
recv ==
    /\ rpc = "recv_from"
    /\ sock # <<>>
    /\ LET n == Head(sock)
           r == parse(Received(arrived[n]))
       IN CASE r.st = "ok" ->
                 /\ rpc' = "callback"
                 /\ cur' = <<n, r.msg>>
                 /\ sock' = Tail(sock)
            [] r.st = "err" ->
                 /\ rpc' = "returned"
                 /\ cur' = cur
                 /\ sock' = <<>>
            [] r.st = "panic" ->
                 /\ rpc' = "panicked"
                 /\ cur' = cur
                 /\ sock' = <<>>
    /\ UNCHANGED <<started, arrived, delivered, stop, msgVars, parseVars, bundleVars>>

\* callback(msg) runs and returns; recv returns; the thread ends
callback ==
    /\ rpc = "callback"
    /\ delivered' = Append(delivered, cur[1])
    /\ rpc' = "returned"
    /\ cur' = <<>>
    /\ sock' = <<>>
    /\ UNCHANGED <<started, arrived, stop, msgVars, parseVars, bundleVars>>

\* stop_socket is called and blocks in handle.join()
stop_socket ==
    /\ started = "0"
    /\ stop = "no"
    /\ stop' = "joining"
    /\ UNCHANGED <<started, arrived, sock, rpc, cur, delivered, msgVars, parseVars, bundleVars>>

\* handle.join().unwrap() returns once the thread has ended, and panics if
\* the thread panicked
join ==
    /\ stop = "joining"
    /\ rpc \in {"returned", "panicked"}
    /\ stop' = (IF rpc = "returned" THEN "joined" ELSE "panic")
    /\ UNCHANGED <<started, arrived, sock, rpc, cur, delivered, msgVars, parseVars, bundleVars>>

SockNext == start_socket \/ Arrive \/ recv \/ callback \/ stop_socket \/ join

SpecSocket == SockInit /\ [][SockNext]_vars

\* C10: the receiver keeps reading, so it has not stopped (before stop_socket)
\* while a well-formed datagram that arrived is undelivered, and the callback
\* gets the datagrams one at a time in arrival order
C10_ReceiveLoop ==
    /\ (rpc = "returned" /\ stop = "no") =>
          \A n \in 1..Len(arrived) :
              parse(Received(arrived[n])).st = "ok" =>
                  \E k \in 1..Len(delivered) : delivered[k] = n
    /\ \A j, k \in 1..Len(delivered) : j < k => delivered[j] < delivered[k]

====
